---- MODULE Spec2Model ----
(***************************************************************************)
(* Booking transaction engine of time-slot-booking-server.                 *)
(*                                                                         *)
(* BookingService.Create and BookingService.Cancel run their statements    *)
(* inside db.RunInTx(ctx, nil, ...): the nil options request the store's   *)
(* default isolation, which for PostgreSQL is READ COMMITTED.  Every       *)
(* statement therefore reads the rows committed when the statement starts  *)
(* plus the transaction's own writes, an UPDATE takes the row's lock and   *)
(* waits for a concurrent writer of the same row, and writes become        *)
(* visible to others only on commit.  One action models one statement.     *)
(***************************************************************************)
EXTENDS Integers, Sequences, FiniteSets, TLC

\* ---------------------------------------------------------------- bounds
NumWorkers == 2
MaxOps == 2

Workers == 1..NumWorkers

\* ------------------------------------------------------- input universes
Users == {"u1", "u2"}
SlotIds == {"s1", "s2", "s3", "s4", "s5", "s6", "s7", "s8", "s9"}
NotesSet == {"n1"}
BookingIds == 1..MaxOps

ActiveStatus == {"pending", "confirmed"}

\* The users table.  No operation of the server writes it: its rows are
\* provisioned outside the program.
StoredUsers == {"u1", "u2"}

\* gen_random_uuid() for the time slot inserted by the call that began at
\* store time t: an id that no other row has or had.
NewSlotId(t) == <<"s3", "s4", "s5", "s6", "s7", "s8">>[t]

VARIABLES
    slots,        \* time_slots table (committed rows): id -> row
    bookings,     \* bookings table (committed rows), indexed by booking id
    resources,    \* resources table: the ids of the stored rows
    clock,        \* store clock; NOW() of a transaction is its start time
    pc,           \* per worker: the statement it executes next
    op,           \* per worker: the call it serves and its arguments
    timeSlot,     \* per worker: the local `timeSlot` (<<>> when not loaded)
    bookingCount, \* per worker: the local `bookingCount`
    booking,      \* per worker: Cancel's local `booking` (<<>> when not loaded)
    txInsert,     \* per worker: booking inserted by the open transaction
    txCancel,     \* per worker: open transaction has set status = cancelled
    txFlag,       \* per worker: is_available written by the open transaction
    aborted,      \* per worker: a statement of the open transaction failed
    result,       \* per worker: what the last call returned
    alone         \* per worker: <<tables when the call began>> while no other
                  \* call has been in flight since this one began, else <<>>

vars == <<slots, bookings, resources, clock, pc, op, timeSlot, bookingCount, booking,
          txInsert, txCancel, txFlag, aborted, result, alone>>

\* ------------------------------------------------------------ the tables
\* A time is a count of half hours since midnight: 20 is 10:00, 21 is
\* 10:30, 22 is 11:00.
TimeSlotRow(r, st, et, c, a, p) ==
    [resource_id |-> r, start_time |-> st, end_time |-> et,
     capacity |-> c, is_available |-> a, price |-> p]

BookingRow(u, r, s, st, n, amt, t) ==
    [user_id |-> u, resource_id |-> r, time_slot_id |-> s, status |-> st,
     notes |-> n, total_amount |-> amt, created_at |-> t]

NoOp == [name |-> "none", user |-> "-", resource |-> "-", slot |-> "-",
         notes |-> "-", bookingID |-> 0, now |-> 0,
         startTime |-> 0, endTime |-> 0, capacity |-> 0, price |-> 0,
         via |-> "service"]

\* What a call returns: the kind of its outcome, the cause its error wraps,
\* the booking it returns and, for a query, its name and its result set.
Result(kind, cause, b) ==
    [kind |-> kind, cause |-> cause, booking |-> b, call |-> "", rows |-> <<>>]

NoResult == Result("none", "", <<>>)

\* What is left at the position of a booking that a cascading delete has
\* removed; the position is kept so that the ids of the other rows do not
\* shift.  No query matches it: its user, resource, slot and status are
\* values that no request carries.
DeletedRow == BookingRow("-", "-", "-", "deleted", "-", 0, 0)

\* ----------------------------------------------------------------- reads
\* Mutant: the count leaves out the status filter.
ActiveCount_CountsCancelled(bs, s) ==
    Cardinality({i \in DOMAIN bs : bs[i].time_slot_id = s})

\* COUNT(*) ... WHERE time_slot_id = s AND status IN ('pending','confirmed')
ActiveCount(bs, s) ==
    Cardinality({i \in DOMAIN bs :
        bs[i].time_slot_id = s /\ bs[i].status \in ActiveStatus})

\* Mutant: the status update has no id filter beyond the slot: it cancels
\* every booking of the slot of the booking it names.
TxView_WholeSlot(w) ==
    [i \in DOMAIN bookings |->
        IF /\ txCancel[w]
           /\ op[w].bookingID \in DOMAIN bookings
           /\ bookings[i] # DeletedRow
           /\ bookings[i].time_slot_id = bookings[op[w].bookingID].time_slot_id
        THEN [bookings[i] EXCEPT !.status = "cancelled"]
        ELSE bookings[i]]

\* The bookings a statement of worker w's transaction reads: the committed
\* rows with the transaction's own status update applied.
TxView(w) ==
    [i \in DOMAIN bookings |->
        IF txCancel[w] /\ i = op[w].bookingID /\ bookings[i] # DeletedRow
        THEN [bookings[i] EXCEPT !.status = "cancelled"]
        ELSE bookings[i]]

\* The time slot the open transaction of worker w works on.
TxSlot(w) ==
    IF op[w].name = "create" THEN op[w].slot
    ELSE IF booking[w] # <<>> THEN booking[w][1].time_slot_id
    ELSE "-"

\* Mutant: the update of is_available also waits for the transactions whose
\* inserted booking references the slot.
SlotRowLocked_ByReference(w, s) ==
    \E v \in Workers \ {w} :
        (txFlag[v] # "none" \/ txInsert[v] # <<>>) /\ TxSlot(v) = s

\* Row locks of READ COMMITTED: a row written by an open transaction is
\* locked until that transaction ends.
SlotRowLocked(w, s) ==
    \E v \in Workers \ {w} : txFlag[v] # "none" /\ TxSlot(v) = s

BookingRowLocked(w, id) ==
    \E v \in Workers \ {w} : txCancel[v] /\ op[v].bookingID = id

\* ------------------------------------------------------------------ Init
Init ==
    /\ slots = [s \in {"s1", "s2"} |->
                  IF s = "s1" THEN TimeSlotRow("r1", 21, 23, 1, TRUE, 40)
                  ELSE TimeSlotRow("r2", 22, 24, 2, TRUE, 25)]
    /\ bookings = <<>>
    /\ resources = {"r1", "r2"}
    /\ clock = 0
    /\ pc = [w \in Workers |-> "idle"]
    /\ op = [w \in Workers |-> NoOp]
    /\ timeSlot = [w \in Workers |-> <<>>]
    /\ bookingCount = [w \in Workers |-> 0]
    /\ booking = [w \in Workers |-> <<>>]
    /\ txInsert = [w \in Workers |-> <<>>]
    /\ txCancel = [w \in Workers |-> FALSE]
    /\ txFlag = [w \in Workers |-> "none"]
    /\ aborted = [w \in Workers |-> FALSE]
    /\ result = [w \in Workers |-> NoResult]
    /\ alone = [w \in Workers |-> <<>>]

\* ------------------------------------------------------- shared plumbing
Finished(w) == pc[w] \in {"idle", "done"}

\* The calls are served by interchangeable workers: a worker that has served
\* a call takes another one at any time, and the workers that have served
\* none are taken in the order of their numbers.
Free(w) ==
    /\ Finished(w)
    /\ pc[w] = "idle" => \A v \in Workers : v < w => pc[v] # "idle"

\* A worker picks up a new call: its locals are fresh and a transaction
\* begins at the current store time.
Begin(w, o, first) ==
    /\ Free(w)
    /\ clock < MaxOps
    /\ clock' = clock + 1
    /\ pc' = [pc EXCEPT ![w] = first]
    /\ op' = [op EXCEPT ![w] = [o EXCEPT !.now = clock']]
    /\ result' = [result EXCEPT ![w] = NoResult]
    /\ alone' = [v \in Workers |->
                   IF v = w /\ \A x \in Workers \ {w} : Finished(x)
                   THEN <<[bookings |-> bookings, slots |-> slots]>>
                   ELSE <<>>]
    /\ UNCHANGED <<slots, bookings, resources, timeSlot, bookingCount, booking,
                   txInsert, txCancel, txFlag, aborted>>

\* The call of worker w returns res: its locals go out of scope and its
\* transaction, if still open, is over.
EndCall(w, res) ==
    /\ pc' = [pc EXCEPT ![w] = "done"]
    /\ op' = [op EXCEPT ![w] = NoOp]
    /\ result' = [result EXCEPT ![w] = res]
    /\ timeSlot' = [timeSlot EXCEPT ![w] = <<>>]
    /\ bookingCount' = [bookingCount EXCEPT ![w] = 0]
    /\ booking' = [booking EXCEPT ![w] = <<>>]
    /\ txInsert' = [txInsert EXCEPT ![w] = <<>>]
    /\ txCancel' = [txCancel EXCEPT ![w] = FALSE]
    /\ txFlag' = [txFlag EXCEPT ![w] = "none"]
    /\ aborted' = [aborted EXCEPT ![w] = FALSE]
    /\ alone' = [alone EXCEPT ![w] = <<>>]

\* RunInTx rolls the transaction back when its function returns an error:
\* the transaction's writes are dropped, its row locks released, and the
\* call returns the error (which wraps its cause).
Rollback(w, kind, cause) ==
    /\ EndCall(w, Result(kind, cause, <<>>))
    /\ UNCHANGED <<slots, bookings, clock, resources>>

\* Outcomes of a statement sent to the store: it executes (TRUE) or fails
\* (FALSE); after a failed statement every later one of the transaction fails.
StmtOutcomes(w) == IF aborted[w] THEN {FALSE} ELSE BOOLEAN

\* The cause wrapped in the error of a select that returned an error.
SelectError(ok) == IF ok THEN "no rows" ELSE "store"

\* ------------------------------------------------- BookingService.Create
CreateBegin(w, u, r, s, n) ==
    Begin(w, [NoOp EXCEPT !.name = "create", !.user = u, !.resource = r,
                          !.slot = s, !.notes = n], "c_slot")

\* Mutant: the select forgets the is_available filter.
SlotSelectable_IgnoresFlag(s, r) ==
    /\ s \in DOMAIN slots
    /\ slots[s].resource_id = r

\* WHERE id = ? AND resource_id = ? AND is_available = true
SlotSelectable(s, r) ==
    /\ s \in DOMAIN slots
    /\ slots[s].resource_id = r
    /\ slots[s].is_available

\* Line 28-37: load the time slot; an error (no row, or a store failure)
\* is returned as "time slot not found or unavailable".
CreateSelectSlot(w, ok) ==
    /\ pc[w] = "c_slot"
    /\ IF ok /\ SlotSelectable(op[w].slot, op[w].resource)
       THEN /\ timeSlot' = [timeSlot EXCEPT ![w] = <<slots[op[w].slot]>>]
            /\ pc' = [pc EXCEPT ![w] = "c_exist"]
            /\ UNCHANGED <<slots, bookings, clock, resources, op, bookingCount, booking,
                           txInsert, txCancel, txFlag, aborted, result, alone>>
       ELSE Rollback(w, "NotFoundOrUnavailable", SelectError(ok))

\* Mutant: the existing-booking select never finds a row.
ExistingBooking_None(s) == FALSE

\* WHERE time_slot_id = ? AND status IN ('pending','confirmed') LIMIT 1
ExistingBooking(s) ==
    \E i \in DOMAIN bookings :
        bookings[i].time_slot_id = s /\ bookings[i].status \in ActiveStatus

\* Line 40-50: err == nil (a row was found) returns "time slot is already
\* booked"; any error, a failed statement included, lets the call go on.
CreateSelectExisting(w, ok) ==
    /\ pc[w] = "c_exist"
    /\ IF ok /\ ExistingBooking(op[w].slot)
       THEN Rollback(w, "AlreadyBooked", "")
       ELSE /\ pc' = [pc EXCEPT ![w] = "c_count"]
            /\ aborted' = [aborted EXCEPT ![w] = ~ok]
            /\ UNCHANGED <<slots, bookings, clock, resources, op, timeSlot, bookingCount,
                           booking, txInsert, txCancel, txFlag, result, alone>>

\* Line 63: the slot has no room for one more booking.
AtCapacity(w, n) == n >= timeSlot[w][1].capacity

\* Line 53-65: count the active bookings and compare with the capacity.
CreateCount(w, ok) ==
    /\ pc[w] = "c_count"
    /\ IF ~ok
       THEN Rollback(w, "CheckCapacityFailed", "store")
       ELSE LET n == ActiveCount(bookings, op[w].slot) IN
            IF AtCapacity(w, n)
            THEN Rollback(w, "CapacityExceeded", "")
            ELSE /\ bookingCount' = [bookingCount EXCEPT ![w] = n]
                 /\ pc' = [pc EXCEPT ![w] = "c_insert"]
                 /\ UNCHANGED <<slots, bookings, clock, resources, op, timeSlot, booking,
                                txInsert, txCancel, txFlag, aborted, result, alone>>

\* Mutant: the row is inserted with status pending.
NewBooking_Pending(w) ==
    BookingRow(op[w].user, op[w].resource, op[w].slot, "pending",
               op[w].notes, timeSlot[w][1].price, op[w].now)

\* Mutant: the row's resource id is a fixed resource, not the one the
\* slot was selected with.
NewBooking_OtherResource(w) ==
    BookingRow(op[w].user, "r1", op[w].slot, "confirmed",
               op[w].notes, timeSlot[w][1].price, op[w].now)

\* Line 68-75: the row to insert; created_at is the column default NOW(),
\* the start time of the transaction.
NewBooking(w) ==
    BookingRow(op[w].user, op[w].resource, op[w].slot, "confirmed",
               op[w].notes, timeSlot[w][1].price, op[w].now)

\* Mutant: the bookings table has no foreign key on user_id.
ReferencesStored_NoUserKey(b) ==
    /\ b.resource_id \in resources
    /\ b.time_slot_id \in DOMAIN slots

\* The foreign keys of the bookings table (user_id, resource_id and
\* time_slot_id): the store rejects a row that references a row not stored.
ReferencesStored(b) ==
    /\ b.user_id \in StoredUsers
    /\ b.resource_id \in resources
    /\ b.time_slot_id \in DOMAIN slots

\* Line 77-83: insert inside the transaction (not visible to others yet).
\* The rows the insert references are locked against deletion until the
\* transaction ends.
CreateInsert(w, ok) ==
    /\ pc[w] = "c_insert"
    /\ IF ~ok
       THEN Rollback(w, "CreateBookingFailed", "store")
       ELSE IF ~ReferencesStored(NewBooking(w))
       THEN Rollback(w, "CreateBookingFailed", "foreign key")
       ELSE /\ txInsert' = [txInsert EXCEPT ![w] = <<NewBooking(w)>>]
            /\ pc' = [pc EXCEPT ![w] = "c_flag"]
            /\ UNCHANGED <<slots, bookings, clock, resources, op, timeSlot, bookingCount,
                           booking, txCancel, txFlag, aborted, result, alone>>

\* Line 86: the capacity is reached by this insert.
CapacityReached(w) == bookingCount[w] + 1 >= timeSlot[w][1].capacity

\* Mutant: the flag update runs on the database handle instead of the
\* transaction, so it is committed at once.
CreateUpdateFlag_Autocommit(w, ok) ==
    /\ pc[w] = "c_flag"
    /\ IF CapacityReached(w)
       THEN IF ~ok
            THEN Rollback(w, "UpdateAvailabilityFailed", "store")
            ELSE /\ ~SlotRowLocked(w, op[w].slot)
                 /\ slots' = [slots EXCEPT ![op[w].slot].is_available = FALSE]
                 /\ pc' = [pc EXCEPT ![w] = "c_commit"]
                 /\ UNCHANGED <<bookings, clock, resources, op, timeSlot, bookingCount,
                                booking, txInsert, txCancel, txFlag, aborted,
                                result, alone>>
       ELSE /\ ok
            /\ pc' = [pc EXCEPT ![w] = "c_commit"]
            /\ UNCHANGED <<slots, bookings, clock, resources, op, timeSlot, bookingCount,
                           booking, txInsert, txCancel, txFlag, aborted, result, alone>>

\* Line 86-96: UPDATE time_slots SET is_available = false WHERE id = ?
\* The UPDATE waits while another open transaction holds the row's lock.
CreateUpdateFlag(w, ok) ==
    /\ pc[w] = "c_flag"
    /\ IF CapacityReached(w)
       THEN IF ~ok
            THEN Rollback(w, "UpdateAvailabilityFailed", "store")
            ELSE /\ ~SlotRowLocked(w, op[w].slot)
                 /\ txFlag' = [txFlag EXCEPT ![w] = "false"]
                 /\ pc' = [pc EXCEPT ![w] = "c_commit"]
                 /\ UNCHANGED <<slots, bookings, clock, resources, op, timeSlot, bookingCount,
                                booking, txInsert, txCancel, aborted, result, alone>>
       ELSE /\ ok
            /\ pc' = [pc EXCEPT ![w] = "c_commit"]
            /\ UNCHANGED <<slots, bookings, clock, resources, op, timeSlot, bookingCount,
                           booking, txInsert, txCancel, txFlag, aborted, result, alone>>

\* Mutant: a Create by a user who holds a cancelled booking of the slot
\* confirms that booking again instead of adding a row.
CommittedBookings_Reactivate(w) ==
    LET upd == TxView(w)
        old == {i \in DOMAIN upd :
                  /\ txInsert[w] # <<>>
                  /\ upd[i].user_id = txInsert[w][1].user_id
                  /\ upd[i].time_slot_id = txInsert[w][1].time_slot_id
                  /\ upd[i].status = "cancelled"}
    IN IF old # {}
       THEN [i \in DOMAIN upd |->
               IF i \in old THEN [upd[i] EXCEPT !.status = "confirmed"] ELSE upd[i]]
       ELSE IF txInsert[w] # <<>> THEN Append(upd, txInsert[w][1]) ELSE upd

\* The committed tables after the open transaction of worker w commits.
CommittedBookings(w) ==
    LET upd == TxView(w) IN
    IF txInsert[w] # <<>> THEN Append(upd, txInsert[w][1]) ELSE upd

CommittedSlots(w) ==
    IF txFlag[w] # "none" /\ TxSlot(w) \in DOMAIN slots
    THEN [slots EXCEPT ![TxSlot(w)].is_available = (txFlag[w] = "true")]
    ELSE slots

\* Line 98-99: the function returns nil and RunInTx commits: the insert
\* and the flag update become visible together.
CreateCommit(w) ==
    /\ pc[w] = "c_commit"
    /\ bookings' = CommittedBookings(w)
    /\ slots' = CommittedSlots(w)
    /\ txInsert' = [txInsert EXCEPT ![w] = <<>>]
    /\ txFlag' = [txFlag EXCEPT ![w] = "none"]
    /\ pc' = [pc EXCEPT ![w] = "c_reread"]
    /\ UNCHANGED <<clock, resources, op, timeSlot, bookingCount, booking, txCancel,
                   aborted, result, alone>>

\* Line 107-114: WHERE user_id = ? AND resource_id = ? AND time_slot_id = ?
\* ORDER BY created_at DESC LIMIT 1, outside the transaction.
LatestBooking(u, r, s) ==
    LET m == {i \in DOMAIN bookings :
                /\ bookings[i].user_id = u
                /\ bookings[i].resource_id = r
                /\ bookings[i].time_slot_id = s}
    IN IF m = {} THEN <<>>
       ELSE LET i == CHOOSE j \in m :
                       \A k \in m : bookings[k].created_at <= bookings[j].created_at
            IN <<bookings[i]>>

\* Line 106-116: the re-read's row and error are returned as they are.
CreateReread(w, ok) ==
    /\ pc[w] = "c_reread"
    /\ LET b == LatestBooking(op[w].user, op[w].resource, op[w].slot) IN
       EndCall(w, IF ok /\ b # <<>> THEN Result("ok", "", b)
                  ELSE Result("RereadFailed", SelectError(ok), <<>>))
    /\ UNCHANGED <<slots, bookings, clock, resources>>

\* ------------------------------------------------- BookingService.Cancel
CancelBegin(w, id, u) ==
    Begin(w, [NoOp EXCEPT !.name = "cancel", !.user = u, !.bookingID = id],
          "x_booking")

\* Mutant: the select forgets the user_id filter.
BookingSelectable_AnyUser(id, u) ==
    id \in DOMAIN bookings

\* WHERE id = ? AND user_id = ?
BookingSelectable(id, u) ==
    /\ id \in DOMAIN bookings
    /\ bookings[id].user_id = u

\* Mutant: a booking of another user is reported as forbidden.
CancelSelectBooking_Forbidden(w, ok) ==
    /\ pc[w] = "x_booking"
    /\ IF ok /\ BookingSelectable(op[w].bookingID, op[w].user)
       THEN /\ booking' = [booking EXCEPT ![w] = <<bookings[op[w].bookingID]>>]
            /\ pc' = [pc EXCEPT ![w] = "x_update"]
            /\ UNCHANGED <<slots, bookings, clock, resources, op, timeSlot, bookingCount,
                           txInsert, txCancel, txFlag, aborted, result, alone>>
       ELSE IF ok /\ op[w].bookingID \in DOMAIN bookings
            THEN Rollback(w, "Forbidden", "other user")
            ELSE Rollback(w, "NotFound", SelectError(ok))

\* Line 155-164: load the booking; any error returns "booking not found".
CancelSelectBooking(w, ok) ==
    /\ pc[w] = "x_booking"
    /\ IF ok /\ BookingSelectable(op[w].bookingID, op[w].user)
       THEN /\ booking' = [booking EXCEPT ![w] = <<bookings[op[w].bookingID]>>]
            /\ pc' = [pc EXCEPT ![w] = "x_update"]
            /\ UNCHANGED <<slots, bookings, clock, resources, op, timeSlot, bookingCount,
                           txInsert, txCancel, txFlag, aborted, result, alone>>
       ELSE Rollback(w, "NotFound", SelectError(ok))

\* Line 167-176: UPDATE bookings SET status = 'cancelled' WHERE id = ?
\* The prior status is not looked at.  The UPDATE waits while another open
\* transaction holds the row's lock.
CancelUpdateBooking(w, ok) ==
    /\ pc[w] = "x_update"
    /\ IF ~ok
       THEN Rollback(w, "CancelFailed", "store")
       ELSE /\ ~BookingRowLocked(w, op[w].bookingID)
            /\ txCancel' = [txCancel EXCEPT ![w] = TRUE]
            /\ pc' = [pc EXCEPT ![w] = "x_slot"]
            /\ UNCHANGED <<slots, bookings, clock, resources, op, timeSlot, bookingCount,
                           booking, txInsert, txFlag, aborted, result, alone>>

\* Line 179-185: load the booking's time slot; on an error the whole
\* re-enable block is skipped and the function returns nil.
CancelSelectSlot(w, ok) ==
    /\ pc[w] = "x_slot"
    /\ IF ok /\ TxSlot(w) \in DOMAIN slots
       THEN /\ timeSlot' = [timeSlot EXCEPT ![w] = <<slots[TxSlot(w)]>>]
            /\ pc' = [pc EXCEPT ![w] = "x_count"]
            /\ UNCHANGED aborted
       ELSE /\ pc' = [pc EXCEPT ![w] = "x_commit"]
            /\ aborted' = [aborted EXCEPT ![w] = ~ok]
            /\ UNCHANGED timeSlot
    /\ UNCHANGED <<slots, bookings, clock, resources, op, bookingCount, booking,
                   txInsert, txCancel, txFlag, result, alone>>

\* Line 193: the slot has room again.
HasRoom(w, n) == n < timeSlot[w][1].capacity

\* Line 187-193: count the remaining active bookings (the count sees the
\* transaction's own update); on an error, or when the slot is still full,
\* the flag is left alone.
CancelCount(w, ok) ==
    /\ pc[w] = "x_count"
    /\ LET n == ActiveCount(TxView(w), TxSlot(w)) IN
       IF ok
       THEN /\ bookingCount' = [bookingCount EXCEPT ![w] = n]
            /\ pc' = [pc EXCEPT ![w] = IF HasRoom(w, n) THEN "x_flag" ELSE "x_commit"]
            /\ UNCHANGED aborted
       ELSE /\ pc' = [pc EXCEPT ![w] = "x_commit"]
            /\ aborted' = [aborted EXCEPT ![w] = TRUE]
            /\ UNCHANGED bookingCount
    /\ UNCHANGED <<slots, bookings, clock, resources, op, timeSlot, booking,
                   txInsert, txCancel, txFlag, result, alone>>

\* Line 195-203: UPDATE time_slots SET is_available = true WHERE id = ?
CancelUpdateFlag(w, ok) ==
    /\ pc[w] = "x_flag"
    /\ IF ~ok
       THEN Rollback(w, "UpdateAvailabilityFailed", "store")
       ELSE /\ ~SlotRowLocked(w, TxSlot(w))
            /\ txFlag' = [txFlag EXCEPT ![w] = "true"]
            /\ pc' = [pc EXCEPT ![w] = "x_commit"]
            /\ UNCHANGED <<slots, bookings, clock, resources, op, timeSlot, bookingCount,
                           booking, txInsert, txCancel, aborted, result, alone>>

\* Mutant: the commit of a transaction with a failed statement succeeds and
\* keeps the writes made before the failure.
CancelCommit_IgnoresFailure(w) ==
    /\ pc[w] = "x_commit"
    /\ bookings' = CommittedBookings(w)
    /\ slots' = CommittedSlots(w)
    /\ EndCall(w, Result("ok", "", <<>>))
    /\ UNCHANGED <<clock, resources>>

\* Line 207-208: the function returns nil and RunInTx commits.  The store
\* turns the commit of a transaction with a failed statement into a
\* rollback and reports an error.
CancelCommit(w) ==
    /\ pc[w] = "x_commit"
    /\ IF aborted[w]
       THEN Rollback(w, "CommitFailed", "store")
       ELSE /\ bookings' = CommittedBookings(w)
            /\ slots' = CommittedSlots(w)
            /\ EndCall(w, Result("ok", "", <<>>))
            /\ UNCHANGED <<clock, resources>>

\* ------------------------------------------------- one-statement calls
\* A call that sends one autocommitted statement on the database handle:
\* it begins, its statement runs and it returns res, in one step.
OneStatementCall(w, res) ==
    /\ Free(w)
    /\ clock < MaxOps
    /\ clock' = clock + 1
    /\ pc' = [pc EXCEPT ![w] = "done"]
    /\ result' = [result EXCEPT ![w] = res]
    /\ alone' = [v \in Workers |-> <<>>]
    /\ UNCHANGED <<op, timeSlot, bookingCount, booking, txInsert, txCancel,
                   txFlag, aborted>>

\* The error, if any, of a statement whose error is returned as it is.
ExecResult(ok) ==
    IF ok THEN Result("ok", "", <<>>) ELSE Result("StoreError", "store", <<>>)

\* ------------------------------------ TimeSlotService.UpdateAvailability
\* UPDATE time_slots SET is_available = ? WHERE id = ?  An id that no slot
\* has updates no row and is no error.  The UPDATE waits while an open
\* transaction holds the row's lock.
UpdateAvailability(w, id, isAvailable, ok) ==
    /\ OneStatementCall(w, ExecResult(ok))
    /\ IF ok /\ id \in DOMAIN slots
       THEN /\ ~SlotRowLocked(w, id)
            /\ slots' = [slots EXCEPT ![id].is_available = isAvailable]
       ELSE slots' = slots
    /\ UNCHANGED <<bookings, resources>>

\* ---------- AvailabilityHandler.CreateTimeSlot, TimeSlotService.Create
\* health.go 160-180: the handler parses the id and decodes the body; no
\* field of the request is checked before the service is called.
CreateTimeSlotBegin(w, r, st, et, c, p) ==
    Begin(w, [NoOp EXCEPT !.name = "createTimeSlot", !.resource = r,
                          !.startTime = st, !.endTime = et,
                          !.capacity = c, !.price = p], "t_insert")

\* Mutant: the constraint admits an empty window.
ValidTimeRange_AllowsEmpty(row) == row.end_time >= row.start_time

\* CONSTRAINT valid_time_range CHECK (end_time > start_time)
ValidTimeRange(row) == row.end_time > row.start_time

\* part_004 184-191: the row to insert; is_available is set to true.
NewTimeSlot(w) ==
    TimeSlotRow(op[w].resource, op[w].startTime, op[w].endTime,
                op[w].capacity, TRUE, op[w].price)

\* The capacity the insert stores for the field value c (part_002 line 40:
\* bun:"capacity,notnull,default:1").  A value other than Go's zero value
\* is sent as it is.  For the zero value the statement carries either 0 or
\* DEFAULT, which the column default (part_005 line 104) makes 1: which of
\* the two depends on how the ORM reads the default tag, so both are
\* outcomes.  The table has no constraint on capacity.
InsertedCapacity(c) == IF c = 0 THEN {0, 1} ELSE {c}

\* part_004 193-197: INSERT INTO time_slots.  The store rejects a row that
\* fails the table's CHECK or references a resource not stored; the error
\* is returned as it is.
TimeSlotInsert(w, ok) ==
    /\ pc[w] = "t_insert"
    /\ \E c \in InsertedCapacity(op[w].capacity) :
       LET row == [NewTimeSlot(w) EXCEPT !.capacity = c]
           id  == NewSlotId(op[w].now)
       IN IF ~ok
          THEN /\ EndCall(w, Result("StoreError", "store", <<>>))
               /\ slots' = slots
          ELSE IF ~ValidTimeRange(row)
          THEN /\ EndCall(w, Result("StoreError", "check", <<>>))
               /\ slots' = slots
          ELSE IF row.resource_id \notin resources
          THEN /\ EndCall(w, Result("StoreError", "foreign key", <<>>))
               /\ slots' = slots
          ELSE /\ EndCall(w, Result("ok", "", <<row>>))
               /\ slots' = [s \in DOMAIN slots \cup {id} |->
                               IF s = id THEN row ELSE slots[s]]
    /\ UNCHANGED <<bookings, clock, resources>>

\* ------------------------------------------------ ResourceService.Delete
\* The rows that ON DELETE CASCADE removes with resource r.
CascadedSlots(r) == {s \in DOMAIN slots : slots[s].resource_id = r}

CascadedBookings(r) ==
    {i \in DOMAIN bookings :
        \/ bookings[i].resource_id = r
        \/ bookings[i].time_slot_id \in CascadedSlots(r)}

\* An open transaction holds a lock on a row that deleting r removes: a
\* row it has updated, or a row that its insert references.
DeleteBlocked(r) ==
    \E v \in Workers :
        \/ txFlag[v] # "none" /\ TxSlot(v) \in CascadedSlots(r)
        \/ txCancel[v] /\ op[v].bookingID \in CascadedBookings(r)
        \/ txInsert[v] # <<>> /\ txInsert[v][1].resource_id = r

\* part_004 135-142: DELETE FROM resources WHERE id = ?  The time slots
\* and the bookings of the resource go with it; an id that no resource has
\* deletes nothing and is no error.
ResourceDelete(w, r, ok) ==
    /\ OneStatementCall(w, ExecResult(ok))
    /\ IF ok
       THEN /\ ~DeleteBlocked(r)
            /\ resources' = resources \ {r}
            /\ slots' = [s \in DOMAIN slots \ CascadedSlots(r) |-> slots[s]]
            /\ bookings' = [i \in DOMAIN bookings |->
                               IF i \in CascadedBookings(r) THEN DeletedRow
                               ELSE bookings[i]]
       ELSE UNCHANGED <<resources, slots, bookings>>

\* ---------------------------------------------------------------- queries
\* What a query returns: the rows in the order of the result set, each
\* named by its id.
Reply(call, kind, cause, rows) ==
    [Result(kind, cause, <<>>) EXCEPT !.call = call, !.rows = rows]

\* The orders in which the store may return the rows S for ORDER BY key
\* ASC, key being a function of the row: rows with equal keys come in any
\* order.
SortedBy(S, key) ==
    {q \in [1..Cardinality(S) -> S] :
        /\ \A i, j \in DOMAIN q : q[i] = q[j] => i = j
        /\ \A i, j \in DOMAIN q : i < j => key[q[i]] <= key[q[j]]}

\* ------------------------------------------ TimeSlotService.GetAvailable
GetAvailableBegin(w, r, startDate, endDate) ==
    Begin(w, [NoOp EXCEPT !.name = "getAvailable", !.resource = r,
                          !.startTime = startDate, !.endTime = endDate],
          "q_available")

\* Mutant: the query leaves out the capacity check.
AvailableSlots_NoCapacityCheck(r, startDate, endDate) ==
    {s \in DOMAIN slots :
        /\ slots[s].resource_id = r
        /\ slots[s].is_available
        /\ slots[s].start_time >= startDate
        /\ slots[s].end_time <= endDate}

\* part_004 167-176: WHERE resource_id = ? AND is_available = true AND
\* start_time >= ? AND end_time <= ? AND (capacity - COALESCE((SELECT
\* COUNT(*) FROM bookings b WHERE b.time_slot_id = time_slots.id AND
\* b.status IN ('pending','confirmed')), 0)) > 0
AvailableSlots(r, startDate, endDate) ==
    {s \in DOMAIN slots :
        /\ slots[s].resource_id = r
        /\ slots[s].is_available
        /\ slots[s].start_time >= startDate
        /\ slots[s].end_time <= endDate
        /\ slots[s].capacity - ActiveCount(bookings, s) > 0}

\* part_004 173-180: ORDER BY start_time ASC; the rows and the error of the
\* scan are returned as they are (no row is no error).
GetAvailableScan(w, ok) ==
    /\ pc[w] = "q_available"
    /\ IF ok
       THEN \E q \in SortedBy(AvailableSlots(op[w].resource, op[w].startTime,
                                             op[w].endTime),
                               [s \in DOMAIN slots |-> slots[s].start_time]) :
                EndCall(w, Reply("getAvailable", "ok", "", q))
       ELSE EndCall(w, Reply("getAvailable", "StoreError", "store", <<>>))
    /\ UNCHANGED <<slots, bookings, clock, resources>>

\* ----------------------------------------- BookingService.GetUserBookings
GetUserBookingsBegin(w, u) ==
    Begin(w, [NoOp EXCEPT !.name = "getUserBookings", !.user = u], "q_user")

\* Line 122-124: WHERE user_id = ?
UserBookings(u) == {i \in DOMAIN bookings : bookings[i].user_id = u}

\* Mutant: the rows come oldest first.
UserBookingsOrder_Ascending(i) == bookings[i].created_at

\* Line 125: ORDER BY created_at DESC
UserBookingsOrder(i) == 0 - bookings[i].created_at

\* Line 120-134: the scan fills the slice made empty at line 120; the rows
\* and the error are returned as they are.
GetUserBookingsScan(w, ok) ==
    /\ pc[w] = "q_user"
    /\ IF ok
       THEN \E q \in SortedBy(UserBookings(op[w].user),
                               [i \in DOMAIN bookings |-> UserBookingsOrder(i)]) :
                EndCall(w, Reply("getUserBookings", "ok", "", q))
       ELSE EndCall(w, Reply("getUserBookings", "StoreError", "store", <<>>))
    /\ UNCHANGED <<slots, bookings, clock, resources>>

\* ------------------------------------------ BookingService.CheckConflicts
CheckConflictsBegin(w, r, startTime, endTime) ==
    Begin(w, [NoOp EXCEPT !.name = "checkConflicts", !.resource = r,
                          !.startTime = startTime, !.endTime = endTime],
          "q_conflicts")

\* The columns of the bookings table (part_005 117-127).
BookingColumns ==
    {"id", "user_id", "resource_id", "time_slot_id", "status", "notes",
     "total_amount", "created_at", "updated_at"}

\* The columns that the WHERE clauses of lines 217-220 name.
ConflictQueryColumns == {"resource_id", "status", "start_time", "end_time"}

\* Line 217-220, for a row b of the table the query selects from:
\* resource_id = ? AND status IN ('pending','confirmed')
\* AND (start_time <= startTime AND end_time > startTime)
\* AND (start_time < endTime AND end_time >= endTime)
ConflictRow(b, r, startTime, endTime) ==
    /\ b.resource_id = r
    /\ b.status \in ActiveStatus
    /\ b.start_time <= startTime /\ b.end_time > startTime
    /\ b.start_time < endTime /\ b.end_time >= endTime

\* Line 214-227: the store rejects a statement that names a column the
\* table does not have.  Only err == nil with a row is reported as a
\* conflict; a failed query returns nil like an empty one.  The handler
\* (booking.go 141-145) answers has_conflicts = (err != nil).  The cause of
\* the reply keeps the error of the scan, which the caller does not get.
CheckConflictsScan(w, ok) ==
    /\ pc[w] = "q_conflicts"
    /\ LET ran == ok /\ ConflictQueryColumns \subseteq BookingColumns
           hit == IF ran
                  THEN \E i \in DOMAIN bookings :
                          ConflictRow(bookings[i], op[w].resource,
                                      op[w].startTime, op[w].endTime)
                  ELSE FALSE
           err == IF ~ok THEN "store"
                  ELSE IF ~ran THEN "undefined column"
                  ELSE ""
       IN EndCall(w, IF hit THEN Reply("checkConflicts", "Conflict", "", <<>>)
                     ELSE Reply("checkConflicts", "ok", err, <<>>))
    /\ UNCHANGED <<slots, bookings, clock, resources>>

\* ------------------------------------------------------- BookingHandler
\* uuid.New() in the request that begins at store time t: a random id,
\* different from every id made before and from every stored user's id.
UuidNew(t) == <<"g1", "g2", "g3", "g4", "g5", "g6">>[t]

\* booking.go 50-61: POST /api/bookings decodes the body and calls Create
\* with userID := uuid.New().
HandleCreate(w, r, s, n) ==
    Begin(w, [NoOp EXCEPT !.name = "create", !.user = UuidNew(clock + 1),
                          !.resource = r, !.slot = s, !.notes = n,
                          !.via = "http"], "c_slot")

\* booking.go 28-33: GET /api/bookings calls GetUserBookings with
\* userID := uuid.New().
HandleGetUserBookings(w) ==
    Begin(w, [NoOp EXCEPT !.name = "getUserBookings",
                          !.user = UuidNew(clock + 1), !.via = "http"], "q_user")

\* booking.go 101-113: PUT /api/bookings/{id}/cancel parses the id and
\* calls Cancel with userID := uuid.New().
HandleCancel(w, id) ==
    Begin(w, [NoOp EXCEPT !.name = "cancel", !.user = UuidNew(clock + 1),
                          !.bookingID = id, !.via = "http"], "x_booking")

\* ------------------------------------------------------------------ Next
\* The (resource id, time slot id) pairs of the Create requests: the two
\* stored slots with their resource, a stored slot with another resource,
\* and an id that no slot has.
CreateTargets == {<<"r1", "s1">>, <<"r2", "s2">>, <<"r2", "s1">>, <<"r1", "s9">>}

\* A statement of an open Create or Cancel call runs, or its transaction
\* commits, or the call returns.
TxStep ==
    \/ \E w \in Workers : \E ok \in StmtOutcomes(w) : CreateSelectSlot(w, ok)
    \/ \E w \in Workers : \E ok \in StmtOutcomes(w) : CreateSelectExisting(w, ok)
    \/ \E w \in Workers : \E ok \in StmtOutcomes(w) : CreateCount(w, ok)
    \/ \E w \in Workers : \E ok \in StmtOutcomes(w) : CreateInsert(w, ok)
    \/ \E w \in Workers : \E ok \in StmtOutcomes(w) : CreateUpdateFlag(w, ok)
    \/ \E w \in Workers : CreateCommit(w)
    \/ \E w \in Workers : \E ok \in BOOLEAN : CreateReread(w, ok)
    \/ \E w \in Workers : \E ok \in StmtOutcomes(w) : CancelSelectBooking(w, ok)
    \/ \E w \in Workers : \E ok \in StmtOutcomes(w) : CancelUpdateBooking(w, ok)
    \/ \E w \in Workers : \E ok \in StmtOutcomes(w) : CancelSelectSlot(w, ok)
    \/ \E w \in Workers : \E ok \in StmtOutcomes(w) : CancelCount(w, ok)
    \/ \E w \in Workers : \E ok \in StmtOutcomes(w) : CancelUpdateFlag(w, ok)
    \/ \E w \in Workers : CancelCommit(w)

Next ==
    \/ \E w \in Workers, u \in Users, n \in NotesSet, t \in CreateTargets :
           CreateBegin(w, u, t[1], t[2], n)
    \/ \E w \in Workers, id \in BookingIds, u \in Users : CancelBegin(w, id, u)
    \/ TxStep

Spec == Init /\ [][Next]_vars

\* The tables after two concurrent Create calls (u1 and u2) have filled the
\* capacity-2 slot s2: both passed the existing-booking check before either
\* committed, the one that counted second set the flag to false.
InitFull ==
    /\ slots = [s \in {"s1", "s2"} |->
                  IF s = "s1" THEN TimeSlotRow("r1", 21, 23, 1, TRUE, 40)
                  ELSE TimeSlotRow("r2", 22, 24, 2, FALSE, 25)]
    /\ bookings = <<BookingRow("u1", "r2", "s2", "confirmed", "n1", 25, -1),
                    BookingRow("u2", "r2", "s2", "confirmed", "n1", 25, 0)>>
    /\ resources = {"r1", "r2"}
    /\ clock = 0
    /\ pc = [w \in Workers |-> "idle"]
    /\ op = [w \in Workers |-> NoOp]
    /\ timeSlot = [w \in Workers |-> <<>>]
    /\ bookingCount = [w \in Workers |-> 0]
    /\ booking = [w \in Workers |-> <<>>]
    /\ txInsert = [w \in Workers |-> <<>>]
    /\ txCancel = [w \in Workers |-> FALSE]
    /\ txFlag = [w \in Workers |-> "none"]
    /\ aborted = [w \in Workers |-> FALSE]
    /\ result = [w \in Workers |-> NoResult]
    /\ alone = [w \in Workers |-> <<>>]

SpecFull == InitFull /\ [][Next]_vars

\* The tables after u1 has booked the capacity-1 slot s1 and cancelled the
\* booking again: the slot is open and holds one cancelled booking.
InitUsed ==
    /\ slots = [s \in {"s1", "s2"} |->
                  IF s = "s1" THEN TimeSlotRow("r1", 21, 23, 1, TRUE, 40)
                  ELSE TimeSlotRow("r2", 22, 24, 2, TRUE, 25)]
    /\ bookings = <<BookingRow("u1", "r1", "s1", "cancelled", "n1", 40, 0)>>
    /\ resources = {"r1", "r2"}
    /\ clock = 0
    /\ pc = [w \in Workers |-> "idle"]
    /\ op = [w \in Workers |-> NoOp]
    /\ timeSlot = [w \in Workers |-> <<>>]
    /\ bookingCount = [w \in Workers |-> 0]
    /\ booking = [w \in Workers |-> <<>>]
    /\ txInsert = [w \in Workers |-> <<>>]
    /\ txCancel = [w \in Workers |-> FALSE]
    /\ txFlag = [w \in Workers |-> "none"]
    /\ aborted = [w \in Workers |-> FALSE]
    /\ result = [w \in Workers |-> NoResult]
    /\ alone = [w \in Workers |-> <<>>]

SpecUsed == InitUsed /\ [][Next]_vars

\* The windows of the CreateTimeSlot requests: one that ends after it
\* starts, an empty one and a reversed one.
TimeSlotWindows == {<<20, 22>>, <<22, 22>>, <<23, 22>>}

\* The Create requests made next to the administration calls (user id,
\* resource id, time slot id): stored slots with their resource.
AdminCreateRequests ==
    {<<"u1", "r1", "s1">>, <<"u2", "r1", "s1">>, <<"u1", "r2", "s2">>}

\* The booking calls together with the administration calls: setting a
\* slot's availability, creating a time slot and deleting a resource.
NextAdmin ==
    \/ \E w \in Workers, c \in AdminCreateRequests :
           CreateBegin(w, c[1], c[2], c[3], "n1")
    \/ \E w \in Workers, id \in BookingIds, u \in Users : CancelBegin(w, id, u)
    \/ TxStep
    \/ \E w \in Workers, a \in BOOLEAN, ok \in BOOLEAN :
           UpdateAvailability(w, "s1", a, ok)
    \/ \E w \in Workers, t \in TimeSlotWindows :
           CreateTimeSlotBegin(w, "r1", t[1], t[2], 1, 30)
    \/ \E w \in Workers : \E ok \in StmtOutcomes(w) : TimeSlotInsert(w, ok)
    \/ \E w \in Workers, ok \in BOOLEAN : ResourceDelete(w, "r1", ok)

SpecAdmin == InitUsed /\ [][NextAdmin]_vars

\* Bookings that the tables can hold after a few Create and Cancel calls
\* on the slots s1 and s3 of resource r1 and s2 of resource r2.
QueryRows ==
    {BookingRow("u1", "r1", "s1", "confirmed", "n1", 40, -4),
     BookingRow("u2", "r1", "s1", "cancelled", "n1", 40, -3),
     BookingRow("u2", "r1", "s3", "confirmed", "n1", 30, -2),
     BookingRow("u1", "r2", "s2", "confirmed", "n1", 25, -1)}

\* The tables the queries are run on: slot s3 of resource r1 has been added
\* by CreateTimeSlot, the flags of s1 and s3 are as the bookings and the
\* administrator have left them, and up to two bookings are stored, in any
\* order of their ids.
InitQuery ==
    /\ \E f1, f3 \in BOOLEAN :
         slots = [s \in {"s1", "s2", "s3"} |->
                    CASE s = "s1" -> TimeSlotRow("r1", 21, 23, 1, f1, 40)
                      [] s = "s2" -> TimeSlotRow("r2", 22, 24, 2, TRUE, 25)
                      [] s = "s3" -> TimeSlotRow("r1", 20, 22, 1, f3, 30)]
    /\ bookings \in {<<>>} \cup {<<a>> : a \in QueryRows}
                    \cup {q \in {<<a, b>> : a \in QueryRows, b \in QueryRows} :
                             q[1] # q[2]}
    /\ resources = {"r1", "r2"}
    /\ clock = 0
    /\ pc = [w \in Workers |-> "idle"]
    /\ op = [w \in Workers |-> NoOp]
    /\ timeSlot = [w \in Workers |-> <<>>]
    /\ bookingCount = [w \in Workers |-> 0]
    /\ booking = [w \in Workers |-> <<>>]
    /\ txInsert = [w \in Workers |-> <<>>]
    /\ txCancel = [w \in Workers |-> FALSE]
    /\ txFlag = [w \in Workers |-> "none"]
    /\ aborted = [w \in Workers |-> FALSE]
    /\ result = [w \in Workers |-> NoResult]
    /\ alone = [w \in Workers |-> <<>>]

\* The date ranges of the GetAvailability requests (with their resource)
\* and the windows of the CheckConflicts requests: 10:00 to 11:00.
AvailabilityRequests == {<<"r1", 20, 24>>, <<"r1", 21, 23>>, <<"r2", 20, 24>>}

ConflictRequests == {<<"r1", 20, 22>>, <<"r2", 20, 22>>}

\* The read-only calls.
NextQuery ==
    \/ \E w \in Workers, a \in AvailabilityRequests :
           GetAvailableBegin(w, a[1], a[2], a[3])
    \/ \E w \in Workers, ok \in BOOLEAN : GetAvailableScan(w, ok)
    \/ \E w \in Workers, u \in Users : GetUserBookingsBegin(w, u)
    \/ \E w \in Workers, ok \in BOOLEAN : GetUserBookingsScan(w, ok)
    \/ \E w \in Workers, c \in ConflictRequests :
           CheckConflictsBegin(w, c[1], c[2], c[3])
    \/ \E w \in Workers, ok \in BOOLEAN : CheckConflictsScan(w, ok)

SpecQuery == InitQuery /\ [][NextQuery]_vars

\* The booking requests of one user of the HTTP API, next to calls of the
\* service with the ids of stored users.
NextHttp ==
    \/ \E w \in Workers, t \in {<<"r1", "s1">>, <<"r2", "s2">>} :
           HandleCreate(w, t[1], t[2], "n1")
    \/ \E w \in Workers : HandleGetUserBookings(w)
    \/ \E w \in Workers, id \in BookingIds : HandleCancel(w, id)
    \/ \E w \in Workers, t \in {<<"r1", "s1">>, <<"r2", "s2">>} :
           CreateBegin(w, "u1", t[1], t[2], "n1")
    \/ \E w \in Workers, id \in BookingIds : CancelBegin(w, id, "u1")
    \/ \E w \in Workers : GetUserBookingsBegin(w, "u1")
    \/ TxStep
    \/ \E w \in Workers, ok \in BOOLEAN : GetUserBookingsScan(w, ok)

SpecHttp == InitUsed /\ [][NextHttp]_vars

\* The Create requests of the integrity runs (user id, resource id, time
\* slot id): a stored user and a user id that no stored user has, each for
\* a slot of the resource that gets deleted and for a slot of the other one.
IntegrityCreateRequests ==
    {<<u, t[1], t[2]>> : u \in {"u1", "u9"},
                         t \in {<<"r1", "s1">>, <<"r2", "s2">>}}

\* The booking calls next to the deletion of a resource and the creation of
\* a time slot for it.
NextIntegrity ==
    \/ \E w \in Workers, c \in IntegrityCreateRequests :
           CreateBegin(w, c[1], c[2], c[3], "n1")
    \/ \E w \in Workers, id \in BookingIds : CancelBegin(w, id, "u1")
    \/ TxStep
    \/ \E w \in Workers : CreateTimeSlotBegin(w, "r1", 20, 22, 1, 30)
    \/ \E w \in Workers : \E ok \in StmtOutcomes(w) : TimeSlotInsert(w, ok)
    \/ \E w \in Workers, ok \in BOOLEAN : ResourceDelete(w, "r1", ok)

SpecIntegrity == InitUsed /\ [][NextIntegrity]_vars

\* The booking calls next to the queries, on tables that hold a cancelled
\* booking.
NextInert ==
    \/ \E w \in Workers, c \in AdminCreateRequests :
           CreateBegin(w, c[1], c[2], c[3], "n1")
    \/ \E w \in Workers, id \in BookingIds, u \in Users : CancelBegin(w, id, u)
    \/ TxStep
    \/ \E w \in Workers, r \in {"r1", "r2"} : GetAvailableBegin(w, r, 20, 24)
    \/ \E w \in Workers, ok \in BOOLEAN : GetAvailableScan(w, ok)
    \/ \E w \in Workers : CheckConflictsBegin(w, "r1", 20, 22)
    \/ \E w \in Workers, ok \in BOOLEAN : CheckConflictsScan(w, ok)

SpecInert == InitUsed /\ [][NextInert]_vars

\* Tables that calls made one after another leave behind: no booking yet; a
\* booking of the capacity-1 slot s1, confirmed (the slot is closed) or
\* cancelled again (the slot is open); a confirmed booking of the capacity-2
\* slot s2 (the slot stays open).
SerialTables ==
    {[bookings |-> <<>>, flag |-> TRUE],
     [bookings |-> <<BookingRow("u1", "r1", "s1", "confirmed", "n1", 40, 0)>>,
      flag |-> FALSE],
     [bookings |-> <<BookingRow("u1", "r1", "s1", "cancelled", "n1", 40, 0)>>,
      flag |-> TRUE],
     [bookings |-> <<BookingRow("u1", "r2", "s2", "confirmed", "n1", 25, 0)>>,
      flag |-> TRUE]}

InitSerial ==
    /\ \E t \in SerialTables :
          /\ bookings = t.bookings
          /\ slots = [s \in {"s1", "s2"} |->
                        IF s = "s1" THEN TimeSlotRow("r1", 21, 23, 1, t.flag, 40)
                        ELSE TimeSlotRow("r2", 22, 24, 2, TRUE, 25)]
    /\ resources = {"r1", "r2"}
    /\ clock = 0
    /\ pc = [w \in Workers |-> "idle"]
    /\ op = [w \in Workers |-> NoOp]
    /\ timeSlot = [w \in Workers |-> <<>>]
    /\ bookingCount = [w \in Workers |-> 0]
    /\ booking = [w \in Workers |-> <<>>]
    /\ txInsert = [w \in Workers |-> <<>>]
    /\ txCancel = [w \in Workers |-> FALSE]
    /\ txFlag = [w \in Workers |-> "none"]
    /\ aborted = [w \in Workers |-> FALSE]
    /\ result = [w \in Workers |-> NoResult]
    /\ alone = [w \in Workers |-> <<>>]

\* Serial executions: a Create, Cancel or UpdateAvailability call begins
\* only when no call is in flight.
NextSerial ==
    \/ /\ \A v \in Workers : Finished(v)
       /\ \/ \E w \in Workers, u \in Users, t \in CreateTargets :
                 CreateBegin(w, u, t[1], t[2], "n1")
          \/ \E w \in Workers, id \in BookingIds, u \in Users :
                 CancelBegin(w, id, u)
          \/ \E w \in Workers, id \in {"s1", "s2"}, a \in BOOLEAN, ok \in BOOLEAN :
                 UpdateAvailability(w, id, a, ok)
    \/ TxStep

SpecSerial == InitSerial /\ [][NextSerial]_vars

\* A client that looks up the available slots and books: GetAvailability,
\* Create and Cancel calls, each beginning only when no call is in flight.
NextBrowse ==
    \/ /\ \A v \in Workers : Finished(v)
       /\ \/ \E w \in Workers, r \in {"r1", "r2"} :
                 GetAvailableBegin(w, r, 20, 24)
          \/ \E w \in Workers, u \in Users, t \in CreateTargets :
                 CreateBegin(w, u, t[1], t[2], "n1")
          \/ \E w \in Workers, id \in BookingIds, u \in Users :
                 CancelBegin(w, id, u)
    \/ \E w \in Workers, ok \in BOOLEAN : GetAvailableScan(w, ok)
    \/ TxStep

SpecBrowse == InitSerial /\ [][NextBrowse]_vars

\* The tables after an administrator has closed the capacity-2 slot s2 with
\* UpdateAvailability(s2, false): the slot held no booking, or one confirmed
\* booking, or one cancelled booking.
ClosedTables ==
    {<<>>,
     <<BookingRow("u1", "r2", "s2", "confirmed", "n1", 25, 0)>>,
     <<BookingRow("u1", "r2", "s2", "cancelled", "n1", 25, 0)>>}

InitClosed ==
    /\ bookings \in ClosedTables
    /\ slots = [s \in {"s1", "s2"} |->
                  IF s = "s1" THEN TimeSlotRow("r1", 21, 23, 1, TRUE, 40)
                  ELSE TimeSlotRow("r2", 22, 24, 2, FALSE, 25)]
    /\ resources = {"r1", "r2"}
    /\ clock = 0
    /\ pc = [w \in Workers |-> "idle"]
    /\ op = [w \in Workers |-> NoOp]
    /\ timeSlot = [w \in Workers |-> <<>>]
    /\ bookingCount = [w \in Workers |-> 0]
    /\ booking = [w \in Workers |-> <<>>]
    /\ txInsert = [w \in Workers |-> <<>>]
    /\ txCancel = [w \in Workers |-> FALSE]
    /\ txFlag = [w \in Workers |-> "none"]
    /\ aborted = [w \in Workers |-> FALSE]
    /\ result = [w \in Workers |-> NoResult]
    /\ alone = [w \in Workers |-> <<>>]

\* Create, Cancel and GetAvailability calls after the slot was closed; no
\* UpdateAvailability call is made.
NextClosed ==
    \/ \E w \in Workers, u \in Users, t \in {<<"r1", "s1">>, <<"r2", "s2">>} :
           CreateBegin(w, u, t[1], t[2], "n1")
    \/ \E w \in Workers, id \in BookingIds, u \in Users : CancelBegin(w, id, u)
    \/ TxStep
    \/ \E w \in Workers : GetAvailableBegin(w, "r2", 20, 24)
    \/ \E w \in Workers, ok \in BOOLEAN : GetAvailableScan(w, ok)

SpecClosed == InitClosed /\ [][NextClosed]_vars

\* A statement of an open Create or Cancel call runs on a store that stays
\* up: no statement fails by itself.
StoreUpStep ==
    \/ \E w \in Workers : CreateSelectSlot(w, TRUE)
    \/ \E w \in Workers : CreateSelectExisting(w, TRUE)
    \/ \E w \in Workers : CreateCount(w, TRUE)
    \/ \E w \in Workers : CreateInsert(w, TRUE)
    \/ \E w \in Workers : CreateUpdateFlag(w, TRUE)
    \/ \E w \in Workers : CreateCommit(w)
    \/ \E w \in Workers : CreateReread(w, TRUE)
    \/ \E w \in Workers : CancelSelectBooking(w, TRUE)
    \/ \E w \in Workers : CancelUpdateBooking(w, TRUE)
    \/ \E w \in Workers : CancelSelectSlot(w, TRUE)
    \/ \E w \in Workers : CancelCount(w, TRUE)
    \/ \E w \in Workers : CancelUpdateFlag(w, TRUE)
    \/ \E w \in Workers : CancelCommit(w)

NextFair ==
    \/ \E w \in Workers, u \in Users, t \in {<<"r1", "s1">>, <<"r2", "s2">>} :
           CreateBegin(w, u, t[1], t[2], "n1")
    \/ \E w \in Workers, id \in BookingIds, u \in Users : CancelBegin(w, id, u)
    \/ StoreUpStep

\* Overlapping Create and Cancel calls on a store that stays up, under fair
\* scheduling: while a statement of some open call can run, one eventually
\* does.  The runs start from the tables with a cancelled booking of the
\* open slot s1 (a Cancel and a Create then write the flag of s1) and from
\* the tables with two bookings of the full slot s2 (two Cancels then write
\* the flag of s2).
SpecFair == (InitUsed \/ InitFull) /\ [][NextFair]_vars /\ WF_vars(StoreUpStep)

\* The capacities of the CreateTimeSlot requests: negative, 0 (also what a
\* request without a capacity decodes to, health.go 168-176), 1 and 2.
TimeSlotCapacities == {-1, 0, 1, 2}

\* The booking calls next to CreateTimeSlot calls of any capacity.
NextSlots ==
    \/ \E w \in Workers, c \in AdminCreateRequests :
           CreateBegin(w, c[1], c[2], c[3], "n1")
    \/ \E w \in Workers, id \in BookingIds : CancelBegin(w, id, "u1")
    \/ TxStep
    \/ \E w \in Workers, c \in TimeSlotCapacities :
           CreateTimeSlotBegin(w, "r1", 20, 22, c, 30)
    \/ \E w \in Workers : \E ok \in StmtOutcomes(w) : TimeSlotInsert(w, ok)

SpecSlots == InitUsed /\ [][NextSlots]_vars

TypeOK ==
    /\ DOMAIN slots \subseteq SlotIds
    /\ clock \in 0..MaxOps
    /\ Len(bookings) <= MaxOps + 2
    /\ \A w \in Workers : txFlag[w] \in {"none", "true", "false"}

\* ================================================================ claims
\* A step in which the call of worker w returns.
Returns(w) == pc[w] \notin {"idle", "done"} /\ pc'[w] = "done"

\* The call returned an error caused by a failure of the store.
StoreFailed(res) == res.cause = "store"

\* The rows of bs that reference time slot s.
OnSlot(bs, s) == {i \in DOMAIN bs : bs[i].time_slot_id = s}

\* ------------------------------------------------------------------- C1
\* C1: in every reachable state, under any interleaving of Create and
\* Cancel transactions, the number of active bookings that reference a time
\* slot is at most the slot's capacity.
C1_CapacityNeverExceeded ==
    \A s \in DOMAIN slots : ActiveCount(bookings, s) <= slots[s].capacity

\* ------------------------------------------------------------------- C2
\* C2: when C+1 Create calls run against an empty, available slot of
\* capacity C, exactly C succeed and every other one fails with
\* CapacityExceeded.  Stated for the call that returns last: the C+1 calls
\* are the only ones made so far, this one overlapped with another, C of
\* them have returned their booking on the slot, and the store did not
\* fail; then this one must return CapacityExceeded.
C2_BurstAdmitsExactlyCapacity ==
    [][\A w \in Workers : \A s \in DOMAIN slots :
        ( /\ Returns(w)
          /\ op[w].name = "create"
          /\ op[w].slot = s
          /\ op[w].resource = slots[s].resource_id
          /\ alone[w] = <<>>
          /\ clock = slots[s].capacity + 1
          /\ Cardinality({v \in Workers \ {w} :
                 /\ pc[v] = "done"
                 /\ result[v].kind = "ok"
                 /\ result[v].booking # <<>>
                 /\ result[v].booking[1].time_slot_id = s}) = slots[s].capacity
          /\ ~StoreFailed(result'[w]) )
        => result'[w].kind = "CapacityExceeded"]_vars

\* ------------------------------------------------------------------- C3
\* The bookings of slot s are the trace of Create calls by distinct users
\* other than u and of nothing else: all confirmed, no user twice.
CreatedByOthers(bs, s, u) ==
    /\ \A i \in OnSlot(bs, s) : bs[i].status = "confirmed" /\ bs[i].user_id # u
    /\ \A i, j \in OnSlot(bs, s) : bs[i].user_id = bs[j].user_id => i = j

\* C3: Create calls by distinct users, made one after another on an
\* available slot of capacity C that held no booking, succeed with a
\* confirmed booking while fewer than C have been made, and the flag is true
\* after each of the first C-1 and false after the C-th.  Stated for one call
\* that ran with no other call in flight: the slot was available and held
\* k < C bookings, all made by such calls; then the call returns a confirmed
\* booking and leaves the flag equal to (k + 1 < C).
C3_SequentialCreatesFillSlot ==
    [][\A w \in Workers :
        (Returns(w) /\ op[w].name = "create" /\ alone[w] # <<>>
                    /\ ~StoreFailed(result'[w]))
        => LET b0 == alone[w][1].bookings
               s0 == alone[w][1].slots
               s  == op[w].slot
           IN ( /\ s \in DOMAIN s0
                /\ s0[s].resource_id = op[w].resource
                /\ s0[s].is_available
                /\ CreatedByOthers(b0, s, op[w].user)
                /\ ActiveCount(b0, s) < s0[s].capacity )
              => /\ result'[w].kind = "ok"
                 /\ result'[w].booking[1].status = "confirmed"
                 /\ slots'[s].is_available
                      = (ActiveCount(b0, s) + 1 < s0[s].capacity)]_vars

\* ------------------------------------------------------------------- C4
\* C4: a Create call on an existing slot of the named resource whose active
\* count already equals its capacity fails with CapacityExceeded, not with
\* another kind, and creates no booking.  Stated for a call that ran with no
\* other call in flight and without a store failure.
C4_FullSlotIsCapacityExceeded ==
    [][\A w \in Workers :
        (Returns(w) /\ op[w].name = "create" /\ alone[w] # <<>>
                    /\ ~StoreFailed(result'[w]))
        => LET b0 == alone[w][1].bookings
               s0 == alone[w][1].slots
               s  == op[w].slot
           IN ( /\ s \in DOMAIN s0
                /\ s0[s].resource_id = op[w].resource
                /\ ActiveCount(b0, s) = s0[s].capacity )
              => /\ result'[w].kind = "CapacityExceeded"
                 /\ bookings' = b0]_vars

\* ------------------------------------------------------------------- C5
\* C5: when the owner of an active booking of a Full slot (active count =
\* capacity, flag false) cancels it, the flag is true afterwards whenever the
\* remaining active count is below the capacity, and the next Create for the
\* slot succeeds.  Stated for calls that ran with no other call in flight
\* and without a store failure: the Cancel, and a Create on a slot that a
\* cancellation has re-opened (flag true, room left).
C5_CancelReopensSlot ==
    [][\A w \in Workers :
        (Returns(w) /\ alone[w] # <<>> /\ ~StoreFailed(result'[w]))
        => LET b0 == alone[w][1].bookings
               s0 == alone[w][1].slots
           IN /\ ( /\ op[w].name = "cancel"
                   /\ op[w].bookingID \in DOMAIN b0
                   /\ b0[op[w].bookingID].user_id = op[w].user
                   /\ b0[op[w].bookingID].status \in ActiveStatus
                   /\ LET s == b0[op[w].bookingID].time_slot_id IN
                        /\ ActiveCount(b0, s) = s0[s].capacity
                        /\ ~s0[s].is_available )
                 => LET s == b0[op[w].bookingID].time_slot_id IN
                      /\ result'[w].kind = "ok"
                      /\ ActiveCount(bookings', s) < slots'[s].capacity
                           => slots'[s].is_available
              /\ ( /\ op[w].name = "create"
                   /\ op[w].slot \in DOMAIN s0
                   /\ s0[op[w].slot].resource_id = op[w].resource
                   /\ s0[op[w].slot].is_available
                   /\ ActiveCount(b0, op[w].slot) < s0[op[w].slot].capacity
                   /\ \E i \in OnSlot(b0, op[w].slot) : b0[i].status = "cancelled" )
                 => result'[w].kind = "ok"]_vars

\* ------------------------------------------------------------------- C6
\* C6: Create fails with NotFoundOrUnavailable whenever no slot has the
\* given id, or the slot belongs to another resource, or its flag is false
\* (as read by the call's first statement); the bookings and every slot's
\* flag are unchanged.
C6_UnselectableSlotRejected ==
    [][\A w \in Workers :
        ( /\ pc[w] = "c_slot"
          /\ pc'[w] # "c_slot"
          /\ \/ op[w].slot \notin DOMAIN slots
             \/ slots[op[w].slot].resource_id # op[w].resource
             \/ ~slots[op[w].slot].is_available )
        => /\ pc'[w] = "done"
           /\ result'[w].kind = "NotFoundOrUnavailable"
           /\ bookings' = bookings
           /\ slots' = slots]_vars

\* A Create is at its first statement and the slot it names is stored,
\* belongs to the named resource and has its flag false.
C6_Witness ==
    \E w \in Workers :
        /\ pc[w] = "c_slot"
        /\ op[w].slot \in DOMAIN slots
        /\ slots[op[w].slot].resource_id = op[w].resource
        /\ ~slots[op[w].slot].is_available

\* ------------------------------------------------------------------- C7
\* The error kinds that RunInTx returns for a Create or Cancel transaction.
TxErrorKinds ==
    {"NotFoundOrUnavailable", "AlreadyBooked", "CheckCapacityFailed",
     "CapacityExceeded", "CreateBookingFailed", "UpdateAvailabilityFailed",
     "NotFound", "CancelFailed", "CommitFailed"}

\* C7: Create and Cancel are all-or-nothing for concurrent transactions.  The
\* committed tables (what other transactions read) change only in the step
\* in which one transaction commits; in that step a Create's booking appears
\* together with its flag update (flag false when the capacity was reached)
\* and a Cancel's status change together with its flag update (flag true
\* when the slot had room); a transaction that returns an error has changed
\* neither table.
C7_AllOrNothing ==
    [][\A w \in Workers :
        /\ (pc'[w] # pc[w] /\ pc[w] \notin {"c_commit", "x_commit"})
             => (bookings' = bookings /\ slots' = slots)
        /\ (pc[w] = "c_commit" /\ pc'[w] # pc[w])
             => /\ bookings' = Append(bookings, txInsert[w][1])
                /\ slots' = IF CapacityReached(w)
                            THEN [slots EXCEPT ![op[w].slot].is_available = FALSE]
                            ELSE slots
                /\ pc'[w] = "c_reread"
        /\ (pc[w] = "x_commit" /\ pc'[w] # pc[w] /\ result'[w].kind = "ok")
             => /\ bookings' = [bookings EXCEPT ![op[w].bookingID].status = "cancelled"]
                /\ slots' = IF timeSlot[w] # <<>> /\ HasRoom(w, bookingCount[w])
                            THEN [slots EXCEPT ![booking[w][1].time_slot_id].is_available = TRUE]
                            ELSE slots
        /\ (Returns(w) /\ result'[w].kind \in TxErrorKinds)
             => (bookings' = bookings /\ slots' = slots /\ pc[w] # "c_reread")]_vars

\* A Create has inserted its booking and written the flag but not committed,
\* while another transaction is reading the same slot's bookings.
C7_Witness ==
    \E w, v \in Workers :
        /\ w # v
        /\ pc[w] = "c_commit"
        /\ txInsert[w] # <<>>
        /\ txFlag[w] = "false"
        /\ pc[v] \in {"c_slot", "c_exist", "c_count"}
        /\ op[v].slot = op[w].slot

\* ------------------------------------------------------------------- C8
\* C8: a Create that succeeds adds exactly one booking: status confirmed,
\* the call's user, resource, slot and notes, total amount equal to the
\* slot's price; no other booking changes.  The booking is added by the
\* call's commit, and a call that returns its booking has it in the table
\* exactly once.
C8_CreateAddsOneConfirmedBooking ==
    [][\A w \in Workers :
        /\ (pc[w] = "c_commit" /\ pc'[w] # pc[w])
             => bookings' = Append(bookings,
                    BookingRow(op[w].user, op[w].resource, op[w].slot,
                               "confirmed", op[w].notes,
                               slots[op[w].slot].price, op[w].now))
        /\ (Returns(w) /\ op[w].name = "create" /\ result'[w].kind = "ok")
             => /\ bookings' = bookings
                /\ Cardinality({i \in DOMAIN bookings :
                       bookings[i].created_at = op[w].now}) = 1
        /\ (op[w].name = "create" /\ pc'[w] # pc[w] /\ pc[w] # "c_commit")
             => bookings' = bookings]_vars

\* A Create has returned its booking while the table holds other bookings.
C8_Witness ==
    \E w \in Workers :
        /\ pc[w] = "done"
        /\ result[w].kind = "ok"
        /\ result[w].booking # <<>>
        /\ Len(bookings) >= 2

\* ------------------------------------------------------------------- C9
\* C9: the booking that a successful Create returns is the booking that
\* this call inserted, with status confirmed, under any interleaving with
\* other Create and Cancel calls.
C9_ReturnsOwnBooking ==
    [][\A w \in Workers :
        (Returns(w) /\ op[w].name = "create" /\ result'[w].kind = "ok")
        => /\ result'[w].booking[1].created_at = op[w].now
           /\ result'[w].booking[1].status = "confirmed"]_vars

\* ------------------------------------------------------------------ C10
\* C10: Cancel fails with NotFound whenever no booking has the given id or
\* the booking belongs to another user (as read by the call's first
\* statement); no booking and no slot changes.
C10_ForeignOrMissingBookingRejected ==
    [][\A w \in Workers :
        ( /\ pc[w] = "x_booking"
          /\ pc'[w] # "x_booking"
          /\ \/ op[w].bookingID \notin DOMAIN bookings
             \/ bookings[op[w].bookingID].user_id # op[w].user )
        => /\ pc'[w] = "done"
           /\ result'[w].kind = "NotFound"
           /\ bookings' = bookings
           /\ slots' = slots]_vars

\* A Cancel is at its first statement and the booking it names is stored
\* and belongs to another user.
C10_Witness ==
    \E w \in Workers :
        /\ pc[w] = "x_booking"
        /\ op[w].bookingID \in DOMAIN bookings
        /\ bookings[op[w].bookingID].user_id # op[w].user

\* ------------------------------------------------------------------ C11
\* C11: the outcome that Cancel returns is the same whether the booking does
\* not exist or exists but belongs to another user.  In both cases the first
\* statement ends the call with the one outcome that a select without a row
\* gives (or, when the store fails, the one outcome of a failed select):
\* nothing in it depends on which of the two cases it was.
C11_NotFoundIndistinguishable ==
    [][\A w \in Workers :
        ( /\ pc[w] = "x_booking"
          /\ pc'[w] # "x_booking"
          /\ \/ op[w].bookingID \notin DOMAIN bookings
             \/ bookings[op[w].bookingID].user_id # op[w].user )
        => \/ result'[w] = Result("NotFound", "no rows", <<>>)
           \/ result'[w] = Result("NotFound", "store", <<>>)]_vars

\* A Cancel naming an id that no booking has was answered "not found" by the
\* store, and a Cancel naming the stored booking of another user is at its
\* first statement.
C11_Witness ==
    \E w, v \in Workers :
        /\ pc[w] = "done"
        /\ result[w] = Result("NotFound", "no rows", <<>>)
        /\ pc[v] = "x_booking"
        /\ op[v].bookingID \in DOMAIN bookings
        /\ bookings[op[v].bookingID].user_id # op[v].user
        /\ Len(bookings) = 1
        /\ clock = 2

\* ------------------------------------------------------------------ C12
\* C12: a booking's status only ever moves from confirmed to cancelled.  On
\* every step of the booking and administration calls, a stored booking
\* keeps its status, or goes from confirmed to cancelled, or is removed with
\* its resource; a cancelled booking is never pending or confirmed again and
\* a removed one never comes back.
C12_StatusOnlyToCancelled ==
    [][\A i \in DOMAIN bookings :
        /\ i \in DOMAIN bookings'
        /\ \/ bookings'[i].status = bookings[i].status
           \/ bookings[i].status = "confirmed" /\ bookings'[i].status = "cancelled"
           \/ bookings[i] # DeletedRow /\ bookings'[i] = DeletedRow]_vars

\* The user of a cancelled booking has booked the same slot again: the
\* cancelled booking is still cancelled next to the new confirmed one.
C12_Witness ==
    \E i, j \in DOMAIN bookings :
        /\ i # j
        /\ bookings[i].status = "cancelled"
        /\ bookings[j].status = "confirmed"
        /\ bookings[j].user_id = bookings[i].user_id
        /\ bookings[j].time_slot_id = bookings[i].time_slot_id

\* ------------------------------------------------------------------ C13
\* C13: Cancel of a booking that is already cancelled succeeds, and
\* afterwards every booking's status and every slot's flag are the same as
\* before the call.  Stated for a Cancel by the booking's user that ran with
\* no other call in flight and without a store failure.
C13_SecondCancelChangesNothing ==
    [][\A w \in Workers :
        (Returns(w) /\ op[w].name = "cancel" /\ alone[w] # <<>>
                    /\ ~StoreFailed(result'[w]))
        => LET b0 == alone[w][1].bookings
               s0 == alone[w][1].slots
               id == op[w].bookingID
           IN ( /\ id \in DOMAIN b0
                /\ b0[id].user_id = op[w].user
                /\ b0[id].status = "cancelled" )
              => /\ result'[w].kind = "ok"
                 /\ DOMAIN bookings' = DOMAIN b0
                 /\ \A i \in DOMAIN b0 : bookings'[i].status = b0[i].status
                 /\ DOMAIN slots' = DOMAIN s0
                 /\ \A s \in DOMAIN s0 :
                        slots'[s].is_available = s0[s].is_available]_vars

C15_EndAfterStart ==
    /\ [](\A s \in DOMAIN slots : slots[s].end_time > slots[s].start_time)
    /\ [][\A w \in Workers :
            ( /\ op[w].name = "createTimeSlot"
              /\ op[w].endTime <= op[w].startTime
              /\ pc'[w] # pc[w] )
            => /\ slots' = slots
               /\ result'[w].kind # "ok"]_vars

\* A CreateTimeSlot call has added a slot, and one with an empty or reversed
\* window has been rejected by the table's CHECK.
C15_Witness ==
    /\ \E s \in DOMAIN slots : s \notin {"s1", "s2"}
    /\ \E w \in Workers :
          /\ pc[w] = "done"
          /\ result[w] = Result("StoreError", "check", <<>>)

\* ------------------------------------------------------------------ C16
\* C16: CreateTimeSlot with end_time <= start_time fails with a
\* ValidationError raised before any store interaction: no call with such a
\* window ever stands at its insert statement, and no call is ever rejected
\* by the store's CHECK.
C16_InvalidWindowNeverSent ==
    \A w \in Workers :
        /\ (op[w].name = "createTimeSlot" /\ op[w].endTime <= op[w].startTime)
             => pc[w] # "t_insert"
        /\ result[w].cause # "check"

\* ------------------------------------------------------------------ C17
\* C17: GetAvailability(resourceId, startDate, endDate) returns exactly the
\* time slots of the resource with start_time >= startDate, end_time <=
\* endDate, flag true and active-booking count strictly below the capacity,
\* in ascending start_time order, and an empty sequence without an error
\* when no slot matches.  Stated for a call whose query the store executed.
C17_AvailabilityExactAndOrdered ==
    [][\A w \in Workers :
        (pc[w] = "q_available" /\ pc'[w] # pc[w] /\ ~StoreFailed(result'[w]))
        => LET q == result'[w].rows
               expected == {s \in DOMAIN slots :
                              /\ slots[s].resource_id = op[w].resource
                              /\ slots[s].start_time >= op[w].startTime
                              /\ slots[s].end_time <= op[w].endTime
                              /\ slots[s].is_available
                              /\ ActiveCount(bookings, s) < slots[s].capacity}
           IN /\ result'[w].kind = "ok"
              /\ {q[i] : i \in DOMAIN q} = expected
              /\ Len(q) = Cardinality(expected)
              /\ \A i, j \in DOMAIN q :
                    i < j => slots[q[i]].start_time <= slots[q[j]].start_time]_vars

\* A GetAvailability call has returned two slots, the later-created slot s3
\* (10:00) before s1 (10:30), and a call with a narrower range only s1.
C17_Witness ==
    \E w \in Workers :
        /\ pc[w] = "done"
        /\ result[w].call = "getAvailable"
        /\ result[w].rows = <<"s3", "s1">>
        /\ \E v \in Workers :
              /\ pc[v] = "done"
              /\ result[v].call = "getAvailable"
              /\ result[v].rows = <<"s1">>

\* ------------------------------------------------------------------ C18
\* C18: CheckConflicts(resourceId, startTime, endTime) reports a conflict if
\* and only if some active booking of the resource has a window [s, e), the
\* window of its time slot, with s < endTime and startTime < e: a proposed
\* 10:00 to 11:00 conflicts with an active 10:30 to 11:30 and not with an
\* adjacent 11:00 to 12:00.
C18_ConflictIffOverlap ==
    [][\A w \in Workers :
        (pc[w] = "q_conflicts" /\ pc'[w] # pc[w])
        => ( result'[w].kind = "Conflict"
             <=> \E i \in DOMAIN bookings :
                    /\ bookings[i].resource_id = op[w].resource
                    /\ bookings[i].status \in ActiveStatus
                    /\ slots[bookings[i].time_slot_id].start_time < op[w].endTime
                    /\ op[w].startTime < slots[bookings[i].time_slot_id].end_time )]_vars

\* ------------------------------------------------------------------ C19
\* C19: ListUserBookings(userId) returns exactly the bookings whose user id
\* is userId, cancelled ones included, ordered by creation time descending,
\* and an empty sequence rather than an error for a user with no bookings.
\* Stated for a call whose query the store executed.
C19_UserBookingsExactAndOrdered ==
    [][\A w \in Workers :
        (pc[w] = "q_user" /\ pc'[w] # pc[w] /\ ~StoreFailed(result'[w]))
        => LET q == result'[w].rows
               expected == {i \in DOMAIN bookings :
                              bookings[i].user_id = op[w].user}
           IN /\ result'[w].kind = "ok"
              /\ {q[i] : i \in DOMAIN q} = expected
              /\ Len(q) = Cardinality(expected)
              /\ \A i, j \in DOMAIN q :
                    i < j => bookings[q[i]].created_at >= bookings[q[j]].created_at]_vars

\* A ListUserBookings call has returned a user's two bookings, the newer one
\* first and the cancelled one included, and the call for the user without
\* bookings an empty sequence.
C19_Witness ==
    \E w, v \in Workers :
        /\ pc[w] = "done"
        /\ result[w].call = "getUserBookings"
        /\ result[w].rows = <<2, 1>>
        /\ bookings[1].status = "cancelled"
        /\ bookings[2].created_at > bookings[1].created_at
        /\ pc[v] = "done"
        /\ result[v].call = "getUserBookings"
        /\ result[v].kind = "ok"
        /\ result[v].rows = <<>>

\* ------------------------------------------------------------------ C20
\* C20: through the HTTP handlers a booking created by POST /api/bookings is
\* returned by a later GET /api/bookings and cancelled by a later PUT
\* /api/bookings/{id}/cancel: the user id that the handlers pass to Create,
\* GetUserBookings and Cancel is the same for the requests of one user.
\* Stated for the requests of the one user that are being served at the
\* same time: the calls made for them carry the same user id.
C20_HandlersPassOneUserId ==
    \A w, v \in Workers :
        (op[w].via = "http" /\ op[v].via = "http") => op[w].user = op[v].user

\* ------------------------------------------------------- reachability
\* POST /api/bookings for an open slot is about to send its insert: the
\* store will reject the row for its user id.
HttpCreateRejected ==
    \E w \in Workers :
        /\ pc[w] = "c_insert"
        /\ op[w].via = "http"
        /\ NewBooking(w).user_id \notin StoredUsers

\* A booking of a user id made by a handler is stored.
HttpCreateStored ==
    \E i \in DOMAIN bookings :
        bookings[i] # DeletedRow /\ bookings[i].user_id \notin StoredUsers

\* The tables of InitUsed occur in a behaviour of Spec (up to the clock).
UsedSlotReached ==
    /\ \A w \in Workers : Finished(w)
    /\ slots["s1"].is_available
    /\ Len(bookings) = 1
    /\ bookings[1].status = "cancelled"
    /\ bookings[1].user_id = "u1"
    /\ bookings[1].time_slot_id = "s1"


\* The tables of InitFull occur in a behaviour of Spec (up to the clock).
FullSlotReached ==
    /\ \A w \in Workers : Finished(w)
    /\ ~slots["s2"].is_available
    /\ ActiveCount(bookings, "s2") = 2
    /\ Len(bookings) = 2

\* The tables of SerialTables with a confirmed booking occur in a behaviour
\* of Spec (up to the clock): after one Create for s1, and after one for s2.
BookedSlotReached ==
    /\ \A w \in Workers : Finished(w)
    /\ ~slots["s1"].is_available
    /\ slots["s2"].is_available
    /\ Len(bookings) = 1
    /\ bookings[1] = [BookingRow("u1", "r1", "s1", "confirmed", "n1", 40, 0)
                        EXCEPT !.created_at = bookings[1].created_at]

HalfFullSlotReached ==
    /\ \A w \in Workers : Finished(w)
    /\ slots["s1"].is_available
    /\ slots["s2"].is_available
    /\ Len(bookings) = 1
    /\ bookings[1] = [BookingRow("u1", "r2", "s2", "confirmed", "n1", 25, 0)
                        EXCEPT !.created_at = bookings[1].created_at]

\* The tables of InitClosed with a confirmed booking occur in a behaviour of
\* SpecSerial: UpdateAvailability(s2, false) on the slot with one booking.
ClosedSlotReached ==
    /\ \A w \in Workers : Finished(w)
    /\ ~slots["s2"].is_available
    /\ slots["s1"].is_available
    /\ bookings = <<BookingRow("u1", "r2", "s2", "confirmed", "n1", 25, 0)>>

\* ------------------------------------------------------------------ C21
\* C21: in every state with no call in flight that Create and Cancel calls
\* alone have reached, each slot's availability flag is true if and only if
\* the number of its active bookings is strictly below its capacity.
C21_FlagIffRoom ==
    (\A w \in Workers : Finished(w))
    => \A s \in DOMAIN slots :
           slots[s].is_available <=> ActiveCount(bookings, s) < slots[s].capacity

\* ------------------------------------------------------------------ C22
\* C22: in every reachable state every booking references a stored user, a
\* stored resource and a stored time slot, and every time slot references a
\* stored resource, also after a resource is deleted; and a Create called
\* with a user id that no stored user has adds no booking and does not
\* succeed.
C22_ReferentialIntegrity ==
    /\ [](/\ \A i \in DOMAIN bookings :
               bookings[i] # DeletedRow
               => /\ bookings[i].user_id \in StoredUsers
                  /\ bookings[i].resource_id \in resources
                  /\ bookings[i].time_slot_id \in DOMAIN slots
          /\ \A s \in DOMAIN slots : slots[s].resource_id \in resources)
    /\ [][\A w \in Workers :
            ( /\ op[w].name = "create"
              /\ op[w].user \notin StoredUsers
              /\ pc'[w] # pc[w] )
            => /\ bookings' = bookings
               /\ Returns(w) => result'[w].kind # "ok"]_vars

\* A resource has been deleted with its slot and its booking, and a Create
\* with a user id that no stored user has is about to insert its row.
C22_Witness ==
    /\ "r1" \notin resources
    /\ "s1" \notin DOMAIN slots
    /\ \E i \in DOMAIN bookings : bookings[i] = DeletedRow
    /\ \E w \in Workers : pc[w] = "c_insert" /\ op[w].user \notin StoredUsers

\* ------------------------------------------------------------------ C23
\* The table bs with its cancelled bookings taken out (the ids of the other
\* rows are kept).
WithoutCancelled(bs) ==
    [i \in DOMAIN bs |-> IF bs[i].status = "cancelled" THEN DeletedRow ELSE bs[i]]

\* The answer of the conflict query of lines 215-221 on the table bs.
ConflictsOn(bs, r, startTime, endTime) ==
    /\ ConflictQueryColumns \subseteq BookingColumns
    /\ \E i \in DOMAIN bs : ConflictRow(bs[i], r, startTime, endTime)

\* C23: cancelled bookings are inert.  Two states that differ only in their
\* cancelled bookings have the same table once these are taken out, so it is
\* enough that every outcome is the one this table gives: on every step,
\* Create's existing-booking check and capacity count, Cancel's recount (and
\* with it the flag it writes), the slots GetAvailability returns and the
\* answer of CheckConflicts are what the table without its cancelled
\* bookings gives, and the booking a Create that ran alone returns is not a
\* cancelled one.
C23_CancelledBookingsInert ==
    [][\A w \in Workers :
        LET live == WithoutCancelled(bookings)
            mine == WithoutCancelled(TxView(w))
        IN /\ (pc[w] = "c_exist" /\ pc'[w] # pc[w] /\ ~aborted'[w])
              => (result'[w].kind = "AlreadyBooked"
                    <=> ActiveCount(live, op[w].slot) > 0)
           /\ (pc[w] = "c_count" /\ pc'[w] # pc[w] /\ ~StoreFailed(result'[w]))
              => /\ result'[w].kind = "CapacityExceeded"
                       <=> ActiveCount(live, op[w].slot) >= timeSlot[w][1].capacity
                 /\ pc'[w] = "c_insert"
                       => bookingCount'[w] = ActiveCount(live, op[w].slot)
           /\ (pc[w] = "x_count" /\ pc'[w] # pc[w] /\ ~aborted'[w])
              => /\ bookingCount'[w] = ActiveCount(mine, TxSlot(w))
                 /\ pc'[w] = "x_flag"
                       <=> ActiveCount(mine, TxSlot(w)) < timeSlot[w][1].capacity
           /\ (pc[w] = "q_available" /\ Returns(w) /\ result'[w].kind = "ok")
              => {result'[w].rows[k] : k \in DOMAIN result'[w].rows}
                   = {s \in DOMAIN slots :
                        /\ slots[s].resource_id = op[w].resource
                        /\ slots[s].is_available
                        /\ slots[s].start_time >= op[w].startTime
                        /\ slots[s].end_time <= op[w].endTime
                        /\ slots[s].capacity - ActiveCount(live, s) > 0}
           /\ (pc[w] = "q_conflicts" /\ Returns(w))
              => (result'[w].kind = "Conflict"
                    <=> ConflictsOn(live, op[w].resource,
                                    op[w].startTime, op[w].endTime))
           /\ (pc[w] = "c_reread" /\ Returns(w) /\ alone[w] # <<>>
                                  /\ result'[w].kind = "ok")
              => result'[w].booking[1].status # "cancelled"]_vars

\* The slot s1 holds a cancelled booking; GetAvailability has returned the
\* slot and a Create for it has counted its active bookings.
C23_Witness ==
    /\ \E i \in DOMAIN bookings :
          bookings[i].status = "cancelled" /\ bookings[i].time_slot_id = "s1"
    /\ \E w, v \in Workers :
          /\ pc[w] = "c_insert"
          /\ op[w].slot = "s1"
          /\ bookingCount[w] = 0
          /\ result[v].call = "getAvailable"
          /\ result[v].rows = <<"s1">>

\* ------------------------------------------------------------------ C24
\* C24: Cancel is all-or-nothing also on store failures inside it.  When a
\* Cancel returns: if a statement of its transaction has failed (the load of
\* the time slot and the recount included) it returns an error; if it
\* returns an error no booking and no slot has changed; and if it returns
\* success the time slot was loaded and the recount ran.
C24_CancelAllOrNothingOnFailure ==
    [][\A w \in Workers :
        (op[w].name = "cancel" /\ Returns(w))
        => /\ aborted[w] => result'[w].kind # "ok"
           /\ result'[w].kind # "ok" => bookings' = bookings /\ slots' = slots
           /\ result'[w].kind = "ok"
                => /\ timeSlot[w] # <<>>
                   /\ pc[w] = "x_commit"
                   /\ ~aborted[w]]_vars

\* A Cancel of a confirmed booking has set the status inside its
\* transaction, then its slot load or its recount failed, and it has
\* returned the error of the commit: the booking is still confirmed.
C24_Witness ==
    /\ Len(bookings) = 1
    /\ bookings[1].status = "confirmed"
    /\ \E w \in Workers : pc[w] = "done" /\ result[w].kind = "CommitFailed"

C26_ListedSlotCanBeBooked ==
    [][\A w, v \in Workers :
        ( /\ op[w].name = "create"
          /\ Returns(w)
          /\ alone[w] # <<>>
          /\ clock = 2
          /\ pc[v] = "done"
          /\ result[v].call = "getAvailable"
          /\ result[v].kind = "ok"
          /\ \E k \in DOMAIN result[v].rows : result[v].rows[k] = op[w].slot
          /\ op[w].resource = alone[w][1].slots[op[w].slot].resource_id
          /\ op[w].user \in StoredUsers
          /\ ~StoreFailed(result'[w]) )
        => result'[w].kind = "ok"]_vars

\* ------------------------------------------------------------------ C27
\* C27: a time slot that an administrator has closed with
\* UpdateAvailability(id, false) stays closed through any Create and Cancel
\* calls while UpdateAvailability(id, true) is not called: its flag stays
\* false, no Create for it succeeds and GetAvailability does not return it.
\* Stated for the slot s2 that was closed before the run, in runs without
\* an UpdateAvailability call.
C27_ClosedSlotStaysClosed ==
    /\ [](~slots["s2"].is_available)
    /\ [][\A w \in Workers :
            /\ (op[w].name = "create" /\ op[w].slot = "s2" /\ Returns(w))
               => result'[w].kind # "ok"
            /\ (op[w].name = "getAvailable" /\ Returns(w))
               => \A k \in DOMAIN result'[w].rows : result'[w].rows[k] # "s2"]_vars

\* ------------------------------------------------------------------ C28
\* C28: a successful Cancel(bookingId, userId) changes only the status of
\* booking bookingId and, at most, the availability flag of that booking's
\* time slot: every other booking, every other slot, each slot's capacity
\* and price and every total amount are as before; and on no step of any
\* call does the total amount of a stored booking change.
C28_CancelFrame ==
    /\ [][\A w \in Workers :
            (op[w].name = "cancel" /\ Returns(w) /\ result'[w].kind = "ok")
            => LET id == op[w].bookingID IN
               /\ DOMAIN bookings' = DOMAIN bookings
               /\ \A i \in DOMAIN bookings :
                     IF i = id
                     THEN bookings'[i] = [bookings[i] EXCEPT
                                            !.status = bookings'[i].status]
                     ELSE bookings'[i] = bookings[i]
               /\ DOMAIN slots' = DOMAIN slots
               /\ \A s \in DOMAIN slots :
                     IF s = booking[w][1].time_slot_id
                     THEN slots'[s] = [slots[s] EXCEPT
                                         !.is_available = slots'[s].is_available]
                     ELSE slots'[s] = slots[s]]_vars
    /\ [][\A i \in DOMAIN bookings :
            bookings'[i] # DeletedRow
            => bookings'[i].total_amount = bookings[i].total_amount]_vars

\* A Cancel of the confirmed booking 2 is about to commit its status update
\* and the flag it has set, while booking 1 of the same slot is stored.
C28_Witness ==
    \E w \in Workers :
        /\ pc[w] = "x_commit"
        /\ ~aborted[w]
        /\ txCancel[w]
        /\ txFlag[w] = "true"
        /\ op[w].bookingID = 2
        /\ Len(bookings) = 2
        /\ bookings[2].status = "confirmed"
        /\ bookings[1].time_slot_id = bookings[2].time_slot_id

\* ------------------------------------------------------------------ C29
\* C29: under any interleaving of overlapping Create and Cancel calls, on a
\* store that stays up and under fair scheduling, every call that has begun
\* eventually returns: its transaction commits or rolls back, and no set of
\* transactions waits forever for the booking and time-slot rows they write.
\* The number of calls of a run is bounded, so it is stated as: whenever a
\* call is in flight, a state with no call in flight follows.
C29_EveryCallReturns ==
    (\E w \in Workers : ~Finished(w)) ~> (\A w \in Workers : Finished(w))

\* A call waits for the lock of the time-slot row whose flag another open
\* transaction has written.
C29_Witness ==
    \E w \in Workers :
        /\ \/ pc[w] = "c_flag" /\ CapacityReached(w)
           \/ pc[w] = "x_flag"
        /\ SlotRowLocked(w, TxSlot(w))

\* ------------------------------------------------------------------ C30
\* C30: CheckConflicts answers "no conflicts" only when its query over the
\* active bookings was executed without an error and returned no row; a
\* query that the store failed to execute is never answered with
\* has_conflicts = false.
C30_NoConflictsOnlyAfterQuery ==
    [][\A w \in Workers :
        (pc[w] = "q_conflicts" /\ Returns(w) /\ result'[w].kind = "ok")
        => result'[w].cause = ""]_vars

\* ------------------------------------------------------------------ C31
\* C31: every time slot that CreateTimeSlot stores has a capacity of at
\* least 1 and its availability flag true; a request with capacity 0, a
\* negative capacity or no capacity never stores a slot of capacity below 1.
C31_CreatedSlotHasCapacity ==
    [][\A w \in Workers :
        (pc[w] = "t_insert" /\ Returns(w) /\ result'[w].kind = "ok")
        => LET id == NewSlotId(op[w].now) IN
           /\ id \in DOMAIN slots'
           /\ slots'[id].is_available
           /\ slots'[id].capacity >= 1]_vars

\* A CreateTimeSlot request with a negative capacity has stored a slot
\* with that capacity.
NegativeCapacityStored ==
    \E s \in DOMAIN slots : slots[s].capacity < 0

\* Every stored slot is created with its availability flag true.
CreatedSlotsStartAvailable ==
    [][\A w \in Workers :
        (pc[w] = "t_insert" /\ Returns(w) /\ result'[w].kind = "ok")
        => slots'[NewSlotId(op[w].now)].is_available]_vars
====
